---- MODULE Spec2Model ----
(***************************************************************************)
(* A model of simple-bash-mcp (src/src/simple_bash_mcp/server.py): the     *)
(* hot-reloaded policy, the two validators, and execute_command with its   *)
(* temporary files, its child process group, its timeout and its result.   *)
(*                                                                         *)
(* Strings are sequences of one-character strings; a fixed piece of text   *)
(* of a message is one element of such a sequence.                         *)
(***************************************************************************)
EXTENDS Integers, Sequences, FiniteSets, TLC

VARIABLES
    config,                \* server.py:25  the in-memory policy
    config_last_modified,  \* server.py:26  mtime of the policy last loaded
    cfgFile,               \* the policy file on disk (CONFIG_FILE)
    fs,                    \* the symbolic links of the filesystem
    vreq,                  \* the function call under study (SpecVal, SpecClean)
    call,                  \* one record per execute_command invocation
    procs,                 \* the OS process table, one slot per pid
    hits,                  \* signals sent: <<sender, owner of the target>>
    requests,              \* the requests the clients have yet to send
    monitor                \* config_monitor's place in check_config_updates

vars ==
    <<config, config_last_modified, cfgFile, fs, vreq, call, procs, hits,
      requests, monitor>>

(***************************************************************************)
(* Bounds of the model.                                                    *)
(***************************************************************************)
MaxLen == 4        \* longest command string explored by SpecVal
MaxDepth == 2      \* longest directory path (in components) explored
NInv == 2          \* concurrent execute_command invocations
NPid == 1          \* pids the OS hands out (small, so that pids are reused)
MaxTimeout == 1    \* largest timeout a request carries
MaxMtime == 3      \* the policy file is written at most MaxMtime - 1 times
MaxOut == 2        \* longest stdout and longest stderr explored by SpecOut

(***************************************************************************)
(* Strings.                                                                *)
(***************************************************************************)
NL == "NL"                       \* the newline character
BQ == "BQ"                       \* the backtick character
Whitespace == {" ", NL}          \* what str.strip() and str.split() skip

Chars == {"l", " ", NL, ";", "&", "|", BQ, "$", "(", ">", "<", "#"}

SeqsUpTo(S, n) == UNION {[1..k -> S] : k \in 0..n}

Contains(s, p) ==
    \E k \in 1..(Len(s) - Len(p) + 1) : SubSeq(s, k, k + Len(p) - 1) = p

IsPrefix(p, s) == Len(p) <= Len(s) /\ SubSeq(s, 1, Len(p)) = p

RECURSIVE Join(_, _)
Join(parts, sep) ==
    IF parts = <<>> THEN <<>>
    ELSE IF Len(parts) = 1 THEN parts[1]
    ELSE parts[1] \o sep \o Join(Tail(parts), sep)

\* command_str.strip().split()[0]; <<>> stands for the IndexError of [0]
BaseCommand(s) ==
    LET nonWs == {k \in 1..Len(s) : s[k] \notin Whitespace} IN
    IF nonWs = {} THEN <<>>
    ELSE LET first == CHOOSE k \in nonWs : \A j \in nonWs : k <= j
             ends  == {k \in first..Len(s) :
                          k = Len(s) \/ s[k + 1] \in Whitespace}
             last  == CHOOSE k \in ends : \A j \in ends : k <= j
         IN SubSeq(s, first, last)

\* sorted(): the order of the characters, then of the strings
CharRank(c) ==
    CASE c = NL -> 0 [] c = " " -> 1 [] c = "#" -> 2 [] c = "$" -> 3
      [] c = "&" -> 4 [] c = "(" -> 5 [] c = ";" -> 6 [] c = "<" -> 7
      [] c = ">" -> 8 [] c = BQ -> 9 [] c = "l" -> 10 [] c = "|" -> 11
      [] OTHER -> 12

RECURSIVE StrLess(_, _)
StrLess(a, b) ==
    IF b = <<>> THEN FALSE
    ELSE IF a = <<>> THEN TRUE
    ELSE IF a[1] # b[1] THEN CharRank(a[1]) < CharRank(b[1])
    ELSE StrLess(Tail(a), Tail(b))

RECURSIVE Sorted(_)
Sorted(S) ==
    IF S = {} THEN <<>>
    ELSE LET m == CHOOSE x \in S : \A y \in S \ {x} : StrLess(x, y)
         IN <<m>> \o Sorted(S \ {m})

(***************************************************************************)
(* The policy (config.json).  A key of the file may be absent: keys is the *)
(* set of the keys the parsed file holds.                                  *)
(***************************************************************************)
PolicyKeys ==
    {"allowedCommands", "allowedDirectories", "validateCommandsStrictly",
     "maxOutputSize"}

Has(cfg, key) == key \in cfg.keys

\* config.get("validateCommandsStrictly", True)
Strict(cfg) ==
    IF Has(cfg, "validateCommandsStrictly") THEN cfg.validateCommandsStrictly
    ELSE TRUE

Policy(keys, cmds, dirs, strict, size) ==
    [keys |-> keys, allowedCommands |-> cmds, allowedDirectories |-> dirs,
     validateCommandsStrictly |-> strict, maxOutputSize |-> size]

(***************************************************************************)
(* Results of a function that may raise.                                   *)
(***************************************************************************)
Return(valid, msg) == [kind |-> "return", valid |-> valid, msg |-> msg]
Raise(exc) == [kind |-> "raise", valid |-> FALSE, msg |-> <<exc>>]

(***************************************************************************)
(* validate_command, after its call of check_config_updates.               *)
(***************************************************************************)
injection_patterns ==
    << <<";">>, <<"&", "&">>, <<"|", "|">>, <<BQ>>, <<"$", "(">>,
       <<">">>, <<"<">>, <<"|">>, <<"#">> >>

QuotedList(seqs) ==
    Join([k \in 1..Len(seqs) |-> <<"'">> \o seqs[k] \o <<"'">>], <<", ">>)

NotAllowedMsg(base_command, cfg) ==
    <<"Command '">> \o base_command
        \o <<"' is not in the allowed commands list. Allowed commands are: ">>
        \o Join(Sorted(cfg.allowedCommands), <<", ">>)

InjectionMsg(pattern, patterns) ==
    <<"Potential command injection detected: '">> \o pattern
        \o <<"' The following characters are not allowed: ">>
        \o QuotedList(patterns)

\* (mutant) the scan reports the last pattern of the list that occurs
validate_command_scan_last(command_str, patterns) ==
    LET found == {k \in 1..Len(patterns) : Contains(command_str, patterns[k])}
    IN IF found = {} THEN Return(TRUE, <<>>)
       ELSE LET k == CHOOSE j \in found : \A m \in found : j >= m
            IN Return(FALSE, InjectionMsg(patterns[k], patterns))

validate_command_scan(command_str, patterns) ==
    LET found == {k \in 1..Len(patterns) : Contains(command_str, patterns[k])}
    IN IF found = {} THEN Return(TRUE, <<>>)
       ELSE LET k == CHOOSE j \in found : \A m \in found : j <= m
            IN Return(FALSE, InjectionMsg(patterns[k], patterns))

validate_command(command_str, cfg) ==
    LET base_command == BaseCommand(command_str) IN
    IF base_command = <<>> THEN Raise("IndexError")
    ELSE IF ~Has(cfg, "allowedCommands") THEN Raise("KeyError")
    ELSE IF base_command \notin cfg.allowedCommands
         THEN Return(FALSE, NotAllowedMsg(base_command, cfg))
    ELSE IF Strict(cfg)
         THEN validate_command_scan(command_str, injection_patterns)
    ELSE Return(TRUE, <<>>)

(***************************************************************************)
(* Paths.  A path is [abs, parts]: parts is the sequence of its components *)
(* and a component is a string.  A canonical path is the sequence of the   *)
(* components below the root.  fs is the set of the symbolic links, each   *)
(* [at |-> canonical path of the link, to |-> canonical path it names].    *)
(***************************************************************************)
A == <<"a">>
AB == <<"a", "b">>
S == <<"s">>
DotDot == <<".", ".">>

Dir(abs, parts) == [abs |-> abs, parts |-> parts]

ServerCwd == <<A>>      \* os.getcwd() of the server, for relative paths

CandidateLinks ==
    {[at |-> <<A, S>>, to |-> <<AB>>],      \* /a/s -> /ab
     [at |-> <<S>>,    to |-> <<A>>]}       \* /s   -> /a

IsLink(p, links) == \E l \in links : l.at = p
LinkTarget(p, links) == (CHOOSE l \in links : l.at = p).to

\* Path.resolve(): os.path.realpath, one component at a time
RECURSIVE ResolveFrom(_, _, _)
ResolveFrom(cur, rest, links) ==
    IF rest = <<>> THEN cur
    ELSE LET c == Head(rest) IN
         IF c = DotDot
         THEN ResolveFrom(IF cur = <<>> THEN <<>>
                          ELSE SubSeq(cur, 1, Len(cur) - 1), Tail(rest), links)
         ELSE LET np == Append(cur, c) IN
              IF IsLink(np, links)
              THEN ResolveFrom(<<>>, LinkTarget(np, links) \o Tail(rest), links)
              ELSE ResolveFrom(np, Tail(rest), links)

Resolve(d, links) ==
    ResolveFrom(IF d.abs THEN <<>> ELSE ServerCwd, d.parts, links)

\* PurePath.parents: every proper ancestor, the root included
Parents(p) == {SubSeq(p, 1, k) : k \in 0..(Len(p) - 1)}

\* str(path)
PathStr(d) ==
    (IF d.abs THEN <<"/">> ELSE <<>>) \o Join(d.parts, <<"/">>)

(***************************************************************************)
(* validate_directory, after its call of check_config_updates.             *)
(***************************************************************************)
DirNotAllowedMsg(directory, cfg) ==
    <<"Directory '">> \o PathStr(directory)
        \o <<"' is not in the allowed directories list. Allowed directories are: ">>
        \o Join([k \in 1..Len(cfg.allowedDirectories) |->
                    PathStr(cfg.allowedDirectories[k])], <<"\n- ">>)

\* str() of a canonical path
CanonStr(p) == <<"/">> \o Join(p, <<"/">>)

\* (mutant) str(directory_path).startswith(str(allowed_path))
DirMatchesByString(directory_path, allowed_path) ==
    IsPrefix(CanonStr(allowed_path), CanonStr(directory_path))

\* directory_path == allowed_path or allowed_path in directory_path.parents
DirMatches(directory_path, allowed_path) ==
    directory_path = allowed_path \/ allowed_path \in Parents(directory_path)

RECURSIVE AllowedDirLoop(_, _, _, _)
AllowedDirLoop(directory_path, allowed, k, links) ==
    IF k > Len(allowed) THEN FALSE
    ELSE IF DirMatches(directory_path, Resolve(allowed[k], links)) THEN TRUE
    ELSE AllowedDirLoop(directory_path, allowed, k + 1, links)

validate_directory(directory, cfg, links) ==
    LET directory_path == Resolve(directory, links) IN
    IF ~Has(cfg, "allowedDirectories") THEN Raise("KeyError")
    ELSE IF AllowedDirLoop(directory_path, cfg.allowedDirectories, 1, links)
         THEN Return(TRUE, <<>>)
    ELSE Return(FALSE, DirNotAllowedMsg(directory, cfg))

(***************************************************************************)
(* The policy file and its reload.                                         *)
(***************************************************************************)
File(state, content, mtime) ==
    [state |-> state, content |-> content, mtime |-> mtime]

\* load_config: [ok, config, config_last_modified]
load_config(cfg, clm, file) ==
    IF file.state = "valid"
    THEN [ok |-> TRUE, config |-> file.content,
          config_last_modified |-> file.mtime]
    ELSE [ok |-> FALSE, config |-> cfg, config_last_modified |-> clm]

\* check_config_updates: [reloaded, config, config_last_modified]
check_config_updates(cfg, clm, file) ==
    LET same == [reloaded |-> FALSE, config |-> cfg,
                 config_last_modified |-> clm] IN
    IF file.state = "missing" THEN same
    ELSE IF file.mtime > clm
         THEN LET l == load_config(cfg, clm, file) IN
              IF l.ok THEN [reloaded |-> TRUE, config |-> l.config,
                            config_last_modified |-> l.config_last_modified]
              ELSE same
    ELSE same

(***************************************************************************)
(* execute_command: results, temporary files, the child's process group.   *)
(***************************************************************************)
Inv == 1..NInv
Pids == 1..NPid

GracePeriod == 1               \* asyncio.sleep(1) before SIGKILL
DefaultMaxOutputSize == 1048576

Result(success, output, error, exitCode, command) ==
    [success |-> success, output |-> output, error |-> error,
     exitCode |-> exitCode, command |-> command]

NoResult == Result(FALSE, <<>>, <<>>, 0, <<>>)

\* (mutant) a rejection reported with the exit code of the execution errors
RejectedResultAsError(msg, command) == Result(FALSE, <<>>, msg, -1, command)

\* the two early returns of a rejected validation
RejectedResult(msg, command) == Result(FALSE, <<>>, msg, 1, command)

\* str(timeout_sec)
NumStr(n) ==
    CASE n = 0 -> <<"0">> [] n = 1 -> <<"1">> [] n = 2 -> <<"2">>
      [] OTHER -> <<"n">>

\* (mutant) a timeout reported as a plain failure of the command
TimeoutResultAsFailure(timeout_sec, command) ==
    Result(FALSE, <<>>,
           <<"Command execution timed out after ">> \o NumStr(timeout_sec)
               \o <<" seconds">>,
           1, command)

TimeoutResult(timeout_sec, command) ==
    Result(FALSE, <<>>,
           <<"Command execution timed out after ">> \o NumStr(timeout_sec)
               \o <<" seconds">>,
           -1, command)

ErrorResult(e, command) ==
    Result(FALSE, <<>>, <<"Error executing command: ", e>>, -1, command)

\* a temporary file: whether its name exists, and what was written to it
TmpFile(exists, data) == [exists |-> exists, data |-> data]
NoFile == TmpFile(FALSE, <<>>)

Unlink(f) == IF f.exists THEN NoFile ELSE f

\* one of the two blocks of self_cleanup_tempfiles, lines 64-70 and 73-79:
\* named is the truth of the path, denied whether os.unlink raises
CleanupBlock(f, named, denied) ==
    IF named /\ f.exists
    THEN [file |-> IF denied THEN f ELSE Unlink(f), tried |-> TRUE,
          caught |-> denied]
    ELSE [file |-> f, tried |-> FALSE, caught |-> FALSE]

\* (mutant) one try around both blocks: the first os.unlink that raises ends
\* the function
self_cleanup_tempfiles_one_try(output_file, error_file, unnamed, denied) ==
    LET o == CleanupBlock(output_file, 1 \notin unnamed, 1 \in denied)
        e == IF o.caught THEN CleanupBlock(error_file, FALSE, FALSE)
             ELSE CleanupBlock(error_file, 2 \notin unnamed, 2 \in denied)
    IN [output_file |-> o.file, error_file |-> e.file, raised |-> FALSE,
        tried |-> {k \in {1, 2} : IF k = 1 THEN o.tried ELSE e.tried}]

\* self_cleanup_tempfiles when the paths of unnamed are None and os.unlink
\* raises for the files of denied: the two files afterwards, whether the
\* function raised, and the files it called os.unlink for
self_cleanup_tempfiles_in(output_file, error_file, unnamed, denied) ==
    LET o == CleanupBlock(output_file, 1 \notin unnamed, 1 \in denied)
        e == CleanupBlock(error_file, 2 \notin unnamed, 2 \in denied)
    IN [output_file |-> o.file, error_file |-> e.file, raised |-> FALSE,
        tried |-> {k \in {1, 2} : IF k = 1 THEN o.tried ELSE e.tried}]

\* self_cleanup_tempfiles as execute_command calls it, with the paths of
\* its own two files, which it may remove: the two files afterwards
self_cleanup_tempfiles(output_file, error_file) ==
    LET r == self_cleanup_tempfiles_in(output_file, error_file, {}, {})
    IN [output_file |-> r.output_file, error_file |-> r.error_file]

\* the except branch of the allocation: the files left when the first
\* (failed = 1) or the second (failed = 2) NamedTemporaryFile raised
AllocFailureCleanup(failed) ==
    [output_file |-> IF failed = 2 THEN Unlink(TmpFile(TRUE, <<>>)) ELSE NoFile,
     error_file |-> NoFile]

\* (mutant) a timer that is armed one unit late
DeadlineLate(timeout_sec) == timeout_sec + 1

\* the moment asyncio.wait_for gives up, counted from the start of the wait
Deadline(timeout_sec) == timeout_sec

StderrMarker == <<NL, "S", "T", "D", "E", "R", "R", ":", NL>>
TruncationMarker == <<NL, "... [OUTPUT TRUNCATED]">>

\* output[:n] of Python
SliceTo(s, n) ==
    IF n >= 0 THEN SubSeq(s, 1, IF n < Len(s) THEN n ELSE Len(s))
    ELSE SubSeq(s, 1, IF Len(s) + n > 0 THEN Len(s) + n ELSE 0)

MaxSize(cfg) ==
    IF Has(cfg, "maxOutputSize") THEN cfg.maxOutputSize
    ELSE DefaultMaxOutputSize

MergeOutput(stdout_str, stderr_str) ==
    IF stderr_str # <<>> THEN stdout_str \o StderrMarker \o stderr_str
    ELSE stdout_str

LimitOutput(output, max_size) ==
    IF Len(output) > max_size THEN SliceTo(output, max_size) \o TruncationMarker
    ELSE output

CompletedResult(exit_code, stdout_str, stderr_str, cfg, command) ==
    Result(exit_code = 0,
           LimitOutput(MergeOutput(stdout_str, stderr_str), MaxSize(cfg)),
           IF exit_code # 0 THEN stderr_str ELSE <<>>,
           exit_code, command)

ReadFile(f) == IF f.exists THEN f.data ELSE <<>>

\* one slot of the process table: the group leader /bin/bash started by
\* Popen(start_new_session=True) and a descendant of it in the same group
Slot(owner, leader, desc, lign, dign, code) ==
    [owner |-> owner, leader |-> leader, desc |-> desc,
     lign |-> lign, dign |-> dign, code |-> code]

FreeSlot == Slot(0, "none", "none", FALSE, FALSE, 0)

\* a pid is handed out again once no process has it as pid or group id
SlotFree(s) == s.leader = "none" /\ s.desc = "none"

Normalize(s) == IF SlotFree(s) THEN FreeSlot ELSE s

SIGTERM == 15
SIGKILL == 9

\* os.killpg on the group of slot s
KillGroup(s, sig) ==
    Normalize([s EXCEPT
        !.leader = IF s.leader = "run" /\ (sig = SIGKILL \/ ~s.lign)
                   THEN "zombie" ELSE @,
        !.code   = IF s.leader = "run" /\ (sig = SIGKILL \/ ~s.lign)
                   THEN 0 - sig ELSE @,
        !.desc   = IF s.desc = "run" /\ (sig = SIGKILL \/ ~s.dign)
                   THEN "none" ELSE @])

\* os.kill on the leader of slot s (Popen.kill)
KillLeader(s) ==
    IF s.leader = "run"
    THEN [s EXCEPT !.leader = "zombie", !.code = 0 - SIGKILL]
    ELSE s

IdleCall ==
    [pc |-> "idle", command |-> <<>>, cwd |-> Dir(TRUE, <<>>), timeout |-> 0,
     cmd_valid |-> FALSE, dir_valid |-> FALSE,
     pid |-> 0, reaped |-> FALSE, rc |-> 0,
     output_file |-> NoFile, error_file |-> NoFile,
     clock |-> 0, wake |-> 0, result |-> NoResult,
     path |-> "none", spawned |-> FALSE, wrote |-> FALSE,
     stdout_str |-> <<>>, stderr_str |-> <<>>,
     cd_done |-> FALSE, rundir |-> <<>>,   \* the directory the child runs in
     snapshots |-> <<>>]    \* the policy each check of the call read

(***************************************************************************)
(* The requests and the policies the state machine is explored with.       *)
(***************************************************************************)
ReqCommands == {<<"l">>, <<"x">>, <<" ">>, <<"l", ";">>}
ReqDirs == {Dir(TRUE, <<A, S>>), Dir(TRUE, <<AB>>)}
\* the timeout argument; 0 stands for an absent one (timeout_sec = None)
Timeouts == 0..MaxTimeout

GoodPolicy ==
    Policy(PolicyKeys, {<<"l">>}, <<Dir(TRUE, <<A>>)>>, TRUE, 2)
NoDirsPolicy ==
    Policy(PolicyKeys \ {"allowedDirectories"}, {<<"l">>}, <<>>, TRUE, 2)
EmptyPolicy == Policy({}, {}, <<>>, TRUE, 0)
MainPolicies == {GoodPolicy, NoDirsPolicy, EmptyPolicy}

StdoutSet == {<<>>, <<"o">>}
StderrSet == {<<>>, <<"e">>}
ExitCodes == {0, 1}

Checked == check_config_updates(config, config_last_modified, cfgFile)

Set(i, rec) == call' = [call EXCEPT ![i] = rec]

Finish(c, result, path) ==
    [c EXCEPT !.pc = "done", !.result = result, !.path = path]

(***************************************************************************)
(* execute_command, lines 133-145: validate_command and its early return.  *)
(* The timeout argument is drawn where the code first reads it, at the     *)
(* wait.                                                                   *)
(***************************************************************************)
ExecValidateCommand(i) ==
    /\ call[i].pc = "idle"
    /\ requests > 0
    /\ requests' = requests - 1
    /\ \E command \in ReqCommands, cwd \in ReqDirs :
         LET r == validate_command(command, Checked.config)
             c == [call[i] EXCEPT !.command = command, !.cwd = cwd,
                                  !.cmd_valid = r.valid,
                                  !.snapshots = Append(@, Checked.config)]
         IN Set(i, IF r.kind = "raise" THEN [c EXCEPT !.pc = "raised"]
                   ELSE IF ~r.valid
                        THEN Finish(c, RejectedResult(r.msg, command),
                                    "command_rejected")
                   ELSE [c EXCEPT !.pc = "vdir"])
    /\ config' = Checked.config
    /\ config_last_modified' = Checked.config_last_modified
    /\ UNCHANGED <<cfgFile, fs, vreq, procs, hits, monitor>>

(***************************************************************************)
(* execute_command, lines 147-229: validate_directory and its early        *)
(* return, the two temporary files, Popen, up to the await of wait_for.    *)
(***************************************************************************)
SpawnOutcome(i, c) ==
    \/ \E failed \in {1, 2} :
         /\ Set(i, Finish([c EXCEPT
                  !.output_file = AllocFailureCleanup(failed).output_file,
                  !.error_file = AllocFailureCleanup(failed).error_file],
                ErrorResult("tempfile", c.command), "alloc_failed"))
         /\ UNCHANGED procs
    \/ LET cl == self_cleanup_tempfiles(TmpFile(TRUE, <<>>), TmpFile(TRUE, <<>>))
       IN /\ Set(i, Finish([c EXCEPT !.output_file = cl.output_file,
                                    !.error_file = cl.error_file],
                           ErrorResult("Popen", c.command), "spawn_failed"))
          /\ UNCHANGED procs
    \/ \E p \in Pids, lign \in BOOLEAN, desc \in {"none", "run"},
          dign \in BOOLEAN, timeout \in Timeouts :
         /\ SlotFree(procs[p])
         /\ desc = "none" => ~dign
         /\ procs' = [procs EXCEPT ![p] = Slot(i, "run", desc, lign, dign, 0)]
         /\ Set(i, [c EXCEPT !.pc = "waiting", !.pid = p, !.spawned = TRUE,
                             !.timeout = timeout,
                             !.output_file = TmpFile(TRUE, <<>>),
                             !.error_file = TmpFile(TRUE, <<>>)])

ExecValidateDirectory(i) ==
    /\ call[i].pc = "vdir"
    /\ LET r == validate_directory(call[i].cwd, Checked.config, fs)
           c == [call[i] EXCEPT !.dir_valid = r.valid,
                                !.snapshots = Append(@, Checked.config)]
       IN IF r.kind = "raise"
          THEN Set(i, [c EXCEPT !.pc = "raised"]) /\ UNCHANGED procs
          ELSE IF ~r.valid
               THEN /\ Set(i, Finish(c, RejectedResult(r.msg, c.command),
                                     "directory_rejected"))
                    /\ UNCHANGED procs
          ELSE SpawnOutcome(i, c)
    /\ config' = Checked.config
    /\ config_last_modified' = Checked.config_last_modified
    /\ UNCHANGED <<cfgFile, fs, vreq, hits, requests, monitor>>

(***************************************************************************)
(* Lines 229-267: the child has been waited for; read, clean up, answer.   *)
(***************************************************************************)
Complete(i) ==
    /\ call[i].pc = "waiting"
    /\ call[i].reaped
    /\ LET c == call[i]
           cl == self_cleanup_tempfiles(c.output_file, c.error_file)
       IN Set(i, Finish([c EXCEPT !.output_file = cl.output_file,
                                  !.error_file = cl.error_file,
                                  !.stdout_str = ReadFile(c.output_file),
                                  !.stderr_str = ReadFile(c.error_file),
                                  !.snapshots = Append(@, Checked.config)],
                        CompletedResult(c.rc, ReadFile(c.output_file),
                                        ReadFile(c.error_file),
                                        Checked.config, c.command),
                        "completed"))
    /\ config' = Checked.config
    /\ config_last_modified' = Checked.config_last_modified
    /\ UNCHANGED <<cfgFile, fs, vreq, procs, hits, requests, monitor>>

(***************************************************************************)
(* asyncio.wait_for gives up: the timer fires, the waiting task is         *)
(* cancelled, and TimeoutError is raised a loop iteration later.           *)
(***************************************************************************)
TimerFires(i) ==
    /\ call[i].pc = "waiting"
    /\ call[i].timeout # 0
    /\ call[i].clock >= Deadline(call[i].timeout)
    /\ Set(i, [call[i] EXCEPT !.pc = "timedout"])
    /\ UNCHANGED <<config, config_last_modified, cfgFile, fs, vreq, procs, hits, requests, monitor>>

\* lines 269-276: os.killpg(os.getpgid(process.pid), SIGTERM), then sleep
HandleTimeout(i) ==
    /\ call[i].pc = "timedout"
    /\ LET c == call[i]
           s == procs[c.pid]
       IN IF s.leader = "none"
          THEN \* getpgid raises ProcessLookupError: lines 280-292
               LET cl == self_cleanup_tempfiles(c.output_file, c.error_file)
               IN /\ Set(i, Finish([c EXCEPT !.output_file = cl.output_file,
                                            !.error_file = cl.error_file],
                                   TimeoutResult(c.timeout, c.command),
                                   "timeout"))
                  /\ UNCHANGED <<procs, hits>>
          ELSE /\ procs' = [procs EXCEPT ![c.pid] = KillGroup(s, SIGTERM)]
               /\ hits' = hits \cup {<<i, s.owner>>}
               /\ Set(i, [c EXCEPT !.pc = "grace",
                                   !.wake = c.clock + GracePeriod])
    /\ UNCHANGED <<config, config_last_modified, cfgFile, fs, vreq, requests, monitor>>

\* process.poll() is None: the waiting thread has not reaped the child
PollIsNone(c) == ~c.reaped

\* lines 277-292: after the sleep, SIGKILL if poll() is None, clean up
WakeGrace(i) ==
    /\ call[i].pc = "grace"
    /\ call[i].clock >= call[i].wake
    /\ LET c == call[i]
           s == procs[c.pid]
           cl == self_cleanup_tempfiles(c.output_file, c.error_file)
       IN /\ IF PollIsNone(c)
             THEN /\ procs' = [procs EXCEPT ![c.pid] = KillGroup(s, SIGKILL)]
                  /\ hits' = hits \cup {<<i, s.owner>>}
             ELSE UNCHANGED <<procs, hits>>
          /\ Set(i, Finish([c EXCEPT !.output_file = cl.output_file,
                                     !.error_file = cl.error_file],
                           TimeoutResult(c.timeout, c.command), "timeout"))
    /\ UNCHANGED <<config, config_last_modified, cfgFile, fs, vreq, requests, monitor>>

\* lines 293-310: the await raised something else; process.kill(), clean up
WaitFails(i) ==
    /\ call[i].pc = "waiting"
    /\ LET c == call[i]
           cl == self_cleanup_tempfiles(c.output_file, c.error_file)
       IN /\ procs' = IF PollIsNone(c)
                      THEN [procs EXCEPT ![c.pid] = KillLeader(procs[c.pid])]
                      ELSE procs
          /\ Set(i, Finish([c EXCEPT !.output_file = cl.output_file,
                                     !.error_file = cl.error_file],
                           ErrorResult("wait", c.command), "wait_failed"))
    /\ UNCHANGED <<config, config_last_modified, cfgFile, fs, vreq, hits, requests, monitor>>

\* the caller cancels the task at one of its awaits: CancelledError is a
\* BaseException, which no handler of execute_command catches
Cancel(i) ==
    /\ call[i].pc \in {"waiting", "timedout", "grace"}
    /\ Set(i, [call[i] EXCEPT !.pc = "cancelled"])
    /\ UNCHANGED <<config, config_last_modified, cfgFile, fs, vreq, procs, hits, requests, monitor>>

\* time passes for an invocation that waits on a timer
Tick(i) ==
    /\ \/ /\ call[i].pc = "waiting"
          /\ call[i].timeout > 0
          /\ call[i].clock < Deadline(call[i].timeout)
       \/ /\ call[i].pc = "grace"
          /\ call[i].clock < call[i].wake
    /\ Set(i, [call[i] EXCEPT !.clock = @ + 1])
    /\ UNCHANGED <<config, config_last_modified, cfgFile, fs, vreq, procs, hits, requests, monitor>>

(***************************************************************************)
(* The environment: the child's processes, the waiting thread of           *)
(* run_in_executor(process.wait), the policy file, the config monitor.     *)
(***************************************************************************)
ChildWrite(p) ==
    /\ procs[p].leader = "run" \/ procs[p].desc = "run"
    /\ LET i == procs[p].owner IN
         /\ ~call[i].wrote
         /\ call[i].output_file.exists /\ call[i].error_file.exists
         /\ \E o \in StdoutSet, e \in StderrSet :
              /\ o # <<>> \/ e # <<>>
              /\ Set(i, [call[i] EXCEPT !.wrote = TRUE,
                                        !.output_file = TmpFile(TRUE, o),
                                        !.error_file = TmpFile(TRUE, e)])
    /\ UNCHANGED <<config, config_last_modified, cfgFile, fs, vreq, procs, hits, requests, monitor>>

ChildExit(p) ==
    /\ procs[p].leader = "run"
    /\ \E code \in ExitCodes :
         procs' = [procs EXCEPT ![p] = [@ EXCEPT !.leader = "zombie",
                                                 !.code = code]]
    /\ UNCHANGED <<config, config_last_modified, cfgFile, fs, vreq, call, hits, requests, monitor>>

DescExit(p) ==
    /\ procs[p].desc = "run"
    /\ procs' = [procs EXCEPT ![p] = Normalize([@ EXCEPT !.desc = "none"])]
    /\ UNCHANGED <<config, config_last_modified, cfgFile, fs, vreq, call, hits, requests, monitor>>

\* process.wait() returns in the executor thread: the child is reaped and
\* returncode is set
Reap(i) ==
    /\ call[i].pid # 0
    /\ ~call[i].reaped
    /\ procs[call[i].pid].owner = i
    /\ procs[call[i].pid].leader = "zombie"
    /\ Set(i, [call[i] EXCEPT !.reaped = TRUE, !.rc = procs[call[i].pid].code])
    /\ procs' = [procs EXCEPT ![call[i].pid] = Normalize([@ EXCEPT !.leader = "none"])]
    /\ UNCHANGED <<config, config_last_modified, cfgFile, fs, vreq, hits, requests, monitor>>

WriteConfig ==
    /\ cfgFile.mtime < MaxMtime
    /\ \/ \E content \in MainPolicies :
            cfgFile' = File("valid", content, cfgFile.mtime + 1)
       \/ \E state \in {"invalid", "missing"} :
            cfgFile' = File(state, EmptyPolicy, cfgFile.mtime + 1)
    /\ UNCHANGED <<config, config_last_modified, fs, vreq, call, procs, hits, requests, monitor>>

\* config_monitor, lines 392-397: one round of its loop
ConfigMonitor ==
    /\ config' = Checked.config
    /\ config_last_modified' = Checked.config_last_modified
    /\ UNCHANGED <<cfgFile, fs, vreq, call, procs, hits, requests, monitor>>

NoCleanup ==
    [output_file |-> NoFile, error_file |-> NoFile, raised |-> FALSE,
     tried |-> {}]

NoVreq ==
    [fn |-> "none", step |-> "idle", command |-> <<>>,
     directory |-> Dir(TRUE, <<>>), res |-> Return(FALSE, <<>>),
     output_file |-> NoFile, error_file |-> NoFile, unnamed |-> {},
     denied |-> {}, once |-> NoCleanup, twice |-> NoCleanup]

\* config_monitor asleep between two rounds; config0 and clm0 are the policy
\* and the stored mtime at the start of its last check_config_updates, ret
\* what that call returned, failed whether an access to the file raised,
\* loaded the content of the last load that check_config_updates reported
MonitorIdle ==
    [pc |-> "sleep", ret |-> FALSE, failed |-> FALSE,
     config0 |-> EmptyPolicy, clm0 |-> 0, loaded |-> EmptyPolicy]

Init ==
    /\ config \in MainPolicies
    /\ cfgFile = File("valid", config, 1)
    /\ config_last_modified = 1
    /\ fs = {}
    /\ vreq = NoVreq
    /\ call = [i \in Inv |-> IdleCall]
    /\ procs = [p \in Pids |-> FreeSlot]
    /\ hits = {}
    /\ requests = NInv
    /\ monitor = MonitorIdle

Step(i) ==
    \/ ExecValidateCommand(i)
    \/ ExecValidateDirectory(i)
    \/ Complete(i)
    \/ TimerFires(i)
    \/ HandleTimeout(i)
    \/ WakeGrace(i)
    \/ WaitFails(i)
    \/ Tick(i)
    \/ Reap(i)

Child(p) == ChildWrite(p) \/ ChildExit(p) \/ DescExit(p)

Next ==
    \/ \E i \in Inv : Step(i)
    \/ \E i \in Inv : Cancel(i)
    \/ \E p \in Pids : Child(p)

Spec == Init /\ [][Next]_vars

(***************************************************************************)
(* Calls whose caller awaits them to their end (no cancellation), under    *)
(* the scheduling of the event loop: a task that is ready runs, a timer    *)
(* that is due fires, and time passes.                                     *)
(***************************************************************************)
Progress(i) ==
    \/ Tick(i)
    \/ TimerFires(i)
    \/ HandleTimeout(i)
    \/ WakeGrace(i)
    \/ Complete(i)

LiveNext ==
    \/ \E i \in Inv : Step(i)
    \/ \E p \in Pids : Child(p)

\* under the policy that lets a request through
LiveInit ==
    /\ config = GoodPolicy
    /\ cfgFile = File("valid", config, 1)
    /\ config_last_modified = 1
    /\ fs = {}
    /\ vreq = NoVreq
    /\ call = [i \in Inv |-> IdleCall]
    /\ procs = [p \in Pids |-> FreeSlot]
    /\ hits = {}
    /\ requests = NInv
    /\ monitor = MonitorIdle

LiveSpec ==
    LiveInit /\ [][LiveNext]_vars /\ \A i \in Inv : WF_vars(Progress(i))

(***************************************************************************)
(* The validators on their own: every command string up to MaxLen and      *)
(* every directory up to MaxDepth, under every policy of the families.     *)
(***************************************************************************)
Commands == SeqsUpTo(Chars, MaxLen)
DirInputs ==
    {Dir(abs, parts) : abs \in BOOLEAN,
                       parts \in SeqsUpTo({A, AB, S, DotDot}, MaxDepth)}

AllowedCommandSets == {{}, {<<"l">>}}
AllowedDirLists ==
    {<<>>, <<Dir(TRUE, <<A>>)>>, <<Dir(TRUE, <<S>>)>>,
     <<Dir(TRUE, <<AB>>), Dir(TRUE, <<A, S>>)>>,
     <<Dir(FALSE, <<DotDot, AB>>)>>}

\* the value under an absent key is a placeholder
CmdPolicies ==
    {Policy(PolicyKeys, cmds, <<>>, strict, 2) :
        cmds \in AllowedCommandSets, strict \in BOOLEAN}
    \cup {Policy(PolicyKeys \ {"validateCommandsStrictly"}, cmds, <<>>, TRUE, 2) :
             cmds \in AllowedCommandSets}
    \cup {Policy(PolicyKeys \ {"allowedCommands"}, {}, <<>>, TRUE, 2)}
DirPolicies ==
    {Policy(PolicyKeys, {}, dirs, TRUE, 2) : dirs \in AllowedDirLists}
    \cup {Policy(PolicyKeys \ {"allowedDirectories"}, {}, <<>>, TRUE, 2)}

ValInit ==
    /\ \/ /\ vreq = [NoVreq EXCEPT !.fn = "validate_command"]
          /\ config \in CmdPolicies
          /\ fs = {}
       \/ /\ vreq = [NoVreq EXCEPT !.fn = "validate_directory"]
          /\ config \in DirPolicies
          /\ fs \in SUBSET CandidateLinks
    /\ cfgFile = File("valid", config, 1)
    /\ config_last_modified = 1
    /\ call = [i \in Inv |-> IdleCall]
    /\ procs = [p \in Pids |-> FreeSlot]
    /\ hits = {}
    /\ requests = 0
    /\ monitor = MonitorIdle

ValidateCommandCall ==
    /\ vreq.fn = "validate_command" /\ vreq.step = "idle"
    /\ \E command \in Commands :
         vreq' = [vreq EXCEPT !.step = "done", !.command = command,
                              !.res = validate_command(command, Checked.config)]
    /\ config' = Checked.config
    /\ config_last_modified' = Checked.config_last_modified
    /\ UNCHANGED <<cfgFile, fs, call, procs, hits, requests, monitor>>

ValidateDirectoryCall ==
    /\ vreq.fn = "validate_directory" /\ vreq.step = "idle"
    /\ \E directory \in DirInputs :
         vreq' = [vreq EXCEPT !.step = "done", !.directory = directory,
                              !.res = validate_directory(directory,
                                                         Checked.config, fs)]
    /\ config' = Checked.config
    /\ config_last_modified' = Checked.config_last_modified
    /\ UNCHANGED <<cfgFile, fs, call, procs, hits, requests, monitor>>

ValNext == ValidateCommandCall \/ ValidateDirectoryCall

SpecVal == ValInit /\ [][ValNext]_vars

(***************************************************************************)
(* One request while the policy file is rewritten and the config monitor   *)
(* runs; the caller may cancel.  The event loop is fair to the monitor as  *)
(* it is to the call.                                                      *)
(***************************************************************************)
ReloadInit ==
    /\ config \in MainPolicies
    /\ cfgFile = File("valid", config, 1)
    /\ config_last_modified = 1
    /\ fs = {}
    /\ vreq = NoVreq
    /\ call = [i \in Inv |-> IdleCall]
    /\ procs = [p \in Pids |-> FreeSlot]
    /\ hits = {}
    /\ requests = 1
    /\ monitor = MonitorIdle

ReloadNext ==
    \/ \E i \in Inv : Step(i)
    \/ \E i \in Inv : Cancel(i)
    \/ \E p \in Pids : Child(p)
    \/ WriteConfig
    \/ ConfigMonitor

SpecReload ==
    /\ ReloadInit /\ [][ReloadNext]_vars
    /\ \A i \in Inv : WF_vars(Progress(i))
    /\ WF_vars(ConfigMonitor)

(***************************************************************************)
(* check_config_updates statement by statement, as config_monitor calls    *)
(* it, while another process rewrites or removes the policy file: the      *)
(* file is looked at three times (lines 43, 33-34 and 35).                 *)
(***************************************************************************)
\* lines 43-44 and 48-51: os.path.getmtime and the comparison
MonitorCheck ==
    /\ monitor.pc = "sleep"
    /\ LET m == [monitor EXCEPT !.config0 = config,
                                !.clm0 = config_last_modified,
                                !.ret = FALSE, !.failed = FALSE]
       IN monitor' =
            IF cfgFile.state = "missing" THEN [m EXCEPT !.failed = TRUE]
            ELSE IF cfgFile.mtime > config_last_modified
                 THEN [m EXCEPT !.pc = "open"]
            ELSE m
    /\ UNCHANGED <<config, config_last_modified, cfgFile, fs, vreq, call,
                   procs, hits, requests>>

\* lines 33-34: open and json.load; config is assigned when both succeed
MonitorRead ==
    /\ monitor.pc = "open"
    /\ IF cfgFile.state = "valid"
       THEN /\ config' = cfgFile.content
            /\ monitor' = [monitor EXCEPT !.pc = "getmtime"]
       ELSE /\ config' = config
            /\ monitor' = [monitor EXCEPT !.pc = "sleep", !.failed = TRUE]
    /\ UNCHANGED <<config_last_modified, cfgFile, fs, vreq, call, procs,
                   hits, requests>>

\* lines 35-37 and 47: os.path.getmtime again, then return True
MonitorStat ==
    /\ monitor.pc = "getmtime"
    /\ IF cfgFile.state = "missing"
       THEN /\ config_last_modified' = config_last_modified
            /\ monitor' = [monitor EXCEPT !.pc = "sleep", !.failed = TRUE]
       ELSE /\ config_last_modified' = cfgFile.mtime
            /\ monitor' = [monitor EXCEPT !.pc = "sleep", !.ret = TRUE,
                                          !.loaded = config]
    /\ UNCHANGED <<config, cfgFile, fs, vreq, call, procs, hits, requests>>

CfgInit ==
    /\ config \in MainPolicies
    /\ cfgFile = File("valid", config, 1)
    /\ config_last_modified = 1
    /\ fs = {}
    /\ vreq = NoVreq
    /\ call = [i \in Inv |-> IdleCall]
    /\ procs = [p \in Pids |-> FreeSlot]
    /\ hits = {}
    /\ requests = 0
    /\ monitor = [MonitorIdle EXCEPT !.loaded = config]

CfgNext == WriteConfig \/ MonitorCheck \/ MonitorRead \/ MonitorStat

SpecCfg == CfgInit /\ [][CfgNext]_vars

(***************************************************************************)
(* The completion of a call on its own: a call that waits for a child      *)
(* which has exited and has been reaped, for every stdout and stderr up to *)
(* MaxOut units, every exit status and every maxOutputSize of OutSizes.    *)
(***************************************************************************)
OutSizes == (0 - MaxOut)..(MaxOut + 1) \cup {4 * MaxOut + 9}
OutPolicies ==
    {Policy(PolicyKeys, {<<"l">>}, <<Dir(TRUE, <<A>>)>>, TRUE, size) :
        size \in OutSizes}
    \cup {Policy(PolicyKeys \ {"maxOutputSize"}, {<<"l">>},
                 <<Dir(TRUE, <<A>>)>>, TRUE, 0)}
OutExitCodes == {0, 1, 0 - SIGTERM}

\* the call between the return of process.wait and line 231
ReapedCall(cfg, rc, out, err) ==
    [IdleCall EXCEPT !.pc = "waiting", !.command = <<"l">>,
                     !.cwd = Dir(TRUE, <<A, S>>), !.cmd_valid = TRUE,
                     !.dir_valid = TRUE, !.pid = 1, !.reaped = TRUE,
                     !.rc = rc, !.spawned = TRUE,
                     !.wrote = (out # <<>> \/ err # <<>>),
                     !.output_file = TmpFile(TRUE, out),
                     !.error_file = TmpFile(TRUE, err),
                     !.snapshots = <<cfg, cfg>>]

OutInit ==
    /\ config \in OutPolicies
    /\ cfgFile = File("valid", config, 1)
    /\ config_last_modified = 1
    /\ fs = {}
    /\ vreq = NoVreq
    /\ \E rc \in OutExitCodes, out \in SeqsUpTo({"o"}, MaxOut),
          err \in SeqsUpTo({"e"}, MaxOut) :
          call = [i \in Inv |-> IF i = 1 THEN ReapedCall(config, rc, out, err)
                                ELSE IdleCall]
    /\ procs = [p \in Pids |-> FreeSlot]
    /\ hits = {}
    /\ requests = 0
    /\ monitor = MonitorIdle

OutNext == \E i \in Inv : Complete(i)

SpecOut == OutInit /\ [][OutNext]_vars

(***************************************************************************)
(* self_cleanup_tempfiles on its own, called twice in a row: each file     *)
(* present or absent, each path given or None, each os.unlink allowed or   *)
(* refused by the operating system.                                        *)
(***************************************************************************)
CleanFiles == {NoFile, TmpFile(TRUE, <<>>), TmpFile(TRUE, <<"o">>)}

CleanInit ==
    /\ \E o \in CleanFiles, e \in CleanFiles, u \in SUBSET {1, 2},
          d \in SUBSET {1, 2} :
          vreq = [NoVreq EXCEPT !.fn = "self_cleanup_tempfiles",
                                !.output_file = o, !.error_file = e,
                                !.unnamed = u, !.denied = d]
    /\ config = GoodPolicy
    /\ cfgFile = File("valid", config, 1)
    /\ config_last_modified = 1
    /\ fs = {}
    /\ call = [i \in Inv |-> IdleCall]
    /\ procs = [p \in Pids |-> FreeSlot]
    /\ hits = {}
    /\ requests = 0
    /\ monitor = MonitorIdle

CleanupCall ==
    /\ vreq.fn = "self_cleanup_tempfiles" /\ vreq.step = "idle"
    /\ vreq' = [vreq EXCEPT !.step = "once",
                            !.once = self_cleanup_tempfiles_in(
                                         vreq.output_file, vreq.error_file,
                                         vreq.unnamed, vreq.denied)]
    /\ UNCHANGED <<config, config_last_modified, cfgFile, fs, call, procs,
                   hits, requests, monitor>>

CleanupAgain ==
    /\ vreq.fn = "self_cleanup_tempfiles" /\ vreq.step = "once"
    /\ vreq' = [vreq EXCEPT !.step = "twice",
                            !.twice = self_cleanup_tempfiles_in(
                                          vreq.once.output_file,
                                          vreq.once.error_file,
                                          vreq.unnamed, vreq.denied)]
    /\ UNCHANGED <<config, config_last_modified, cfgFile, fs, call, procs,
                   hits, requests, monitor>>

CleanNext == CleanupCall \/ CleanupAgain

SpecClean == CleanInit /\ [][CleanNext]_vars

(***************************************************************************)
(* One request while another process changes the filesystem.  The child    *)
(* starts with "cd cwd" (bash_script, line 194): the shell first removes   *)
(* each ".." together with the component before it, then follows the       *)
(* symbolic links that exist at that moment.                               *)
(***************************************************************************)
RECURSIVE LexNormalize(_, _)
LexNormalize(done, rest) ==
    IF rest = <<>> THEN done
    ELSE IF Head(rest) = DotDot
         THEN LexNormalize(IF done = <<>> THEN <<>>
                           ELSE SubSeq(done, 1, Len(done) - 1), Tail(rest))
    ELSE LexNormalize(Append(done, Head(rest)), Tail(rest))

\* the physical directory in which "cd d" leaves the shell
ShellCd(d, links) ==
    ResolveFrom(<<>>,
                LexNormalize(IF d.abs THEN <<>> ELSE ServerCwd, d.parts),
                links)

ChildCd(p) ==
    /\ procs[p].leader = "run"
    /\ LET i == procs[p].owner IN
         /\ ~call[i].cd_done
         /\ Set(i, [call[i] EXCEPT !.cd_done = TRUE,
                                   !.rundir = ShellCd(call[i].cwd, fs)])
    /\ UNCHANGED <<config, config_last_modified, cfgFile, fs, vreq, procs,
                   hits, requests, monitor>>

\* the command of the child runs once the cd is done
ChildAfterCd(p) ==
    /\ procs[p].owner \in Inv
    /\ call[procs[p].owner].cd_done
    /\ Child(p)

\* another process puts a symbolic link in the place of a directory
Relink ==
    /\ \E l \in CandidateLinks \ fs : fs' = fs \cup {l}
    /\ UNCHANGED <<config, config_last_modified, cfgFile, vreq, call, procs,
                   hits, requests, monitor>>

FsInit ==
    /\ config \in MainPolicies
    /\ cfgFile = File("valid", config, 1)
    /\ config_last_modified = 1
    /\ fs = {}
    /\ vreq = NoVreq
    /\ call = [i \in Inv |-> IdleCall]
    /\ procs = [p \in Pids |-> FreeSlot]
    /\ hits = {}
    /\ requests = 1
    /\ monitor = MonitorIdle

FsNext ==
    \/ \E i \in Inv : Step(i)
    \/ \E p \in Pids : ChildCd(p)
    \/ \E p \in Pids : ChildAfterCd(p)
    \/ Relink

SpecFs == FsInit /\ [][FsNext]_vars

(***************************************************************************)
(* Claims about execute_command, checked under Spec.                       *)
(***************************************************************************)

\* (the policy file is not rewritten under Spec: config is the policy of
\* every validation of a call)
\* C1: a child is spawned and temporary files exist only after both
\* validators passed; a rejected command or directory ends the call with
\* success = false, exitCode = 1, empty output and the validator's message,
\* the command's message when the command is rejected (whatever the
\* directory), and without any process spawned for the request.
C1_ValidatedBeforeSpawn ==
    \A i \in Inv :
        LET c == call[i] IN
        /\ (c.spawned \/ c.pid # 0 \/ c.output_file.exists
               \/ c.error_file.exists)
              => c.cmd_valid /\ c.dir_valid
        /\ (c.pc = "done" /\ ~c.cmd_valid)
              => /\ c.result.success = FALSE
                 /\ c.result.exitCode = 1
                 /\ c.result.output = <<>>
                 /\ c.result.error = validate_command(c.command, config).msg
                 /\ ~c.spawned /\ c.pid = 0
        /\ (c.pc = "done" /\ c.cmd_valid /\ ~c.dir_valid)
              => /\ c.result.success = FALSE
                 /\ c.result.exitCode = 1
                 /\ c.result.output = <<>>
                 /\ c.result.error
                       = validate_directory(c.cwd, config, fs).msg
                 /\ ~c.spawned /\ c.pid = 0

\* C1 witness: one call rejected for its command although its directory
\* would be rejected too, one rejected for its directory, one spawned.
C1_Witness ==
    \E i, j \in Inv :
        /\ call[i].pc = "done" /\ ~call[i].cmd_valid
        /\ call[i].command = <<"l", ";">>
        /\ ~validate_directory(call[i].cwd, config, fs).valid
        /\ call[j].pc = "done" /\ call[j].cmd_valid /\ ~call[j].dir_valid

\* C2: execute_command never raises: every call that has ended has ended
\* with a result, whatever the command and the installed policy.
C2_NeverRaises ==
    \A i \in Inv : call[i].pc # "raised"

\* C6: when a call has ended, by a result or by an exception, the
\* temporary files it created are deleted and its child no longer runs.
C6_CleanedUpAtEnd ==
    \A i \in Inv :
        LET c == call[i] IN
        c.pc \in {"done", "raised", "cancelled"}
            => /\ ~c.output_file.exists
               /\ ~c.error_file.exists
               /\ ~(c.pid # 0 /\ procs[c.pid].owner = i
                      /\ procs[c.pid].leader = "run")

\* C7: a call that ends after its timeout elapsed reports success = false,
\* exitCode = -1, an empty output and an error that states the timeout.
C7_TimeoutResult ==
    \A i \in Inv :
        LET c == call[i] IN
        (c.pc = "done" /\ c.path = "timeout")
            => /\ c.result.success = FALSE
               /\ c.result.exitCode = -1
               /\ c.result.output = <<>>
               /\ c.result.error
                     = <<"Command execution timed out after ">>
                          \o NumStr(c.timeout) \o <<" seconds">>
               /\ c.result.command = c.command

\* C7 witness: a timed-out call whose child had written output.
C7_Witness ==
    \E i \in Inv :
        /\ call[i].pc = "done" /\ call[i].path = "timeout"
        /\ call[i].timeout > 0 /\ call[i].wrote

\* C8: when a call has ended by its timeout, no process of its child's
\* process group is alive.
C8_GroupDeadAfterTimeout ==
    \A i \in Inv :
        LET c == call[i] IN
        (c.pc = "done" /\ c.path = "timeout")
            => ~(procs[c.pid].owner = i
                   /\ (procs[c.pid].leader = "run" \/ procs[c.pid].desc = "run"))

\* C9: a validated call with a positive timeout T returns a result, and no
\* later than one grace period (one second) after T, whether its child
\* exits or not and whether the signals reach a process or not.
C9_ReturnsWithinGrace ==
    \A i \in Inv :
        (call[i].pc = "waiting" /\ call[i].timeout > 0)
            ~> (call[i].pc = "done"
                  /\ call[i].clock <= call[i].timeout + 1)

\* C9 witness: a call returned one grace period after its timeout, its
\* child still not exited when the grace period ended.
C9_Witness ==
    \E i \in Inv :
        /\ call[i].pc = "done" /\ call[i].path = "timeout"
        /\ call[i].timeout > 0
        /\ call[i].clock = call[i].timeout + 1
        /\ ~call[i].reaped

\* C10: the signals of a call's timeout reach only processes of that call's
\* own child process group.
C10_SignalsOwnGroupOnly ==
    \A h \in hits : h[1] = h[2]

(***************************************************************************)
(* Claims about the validators, checked under SpecVal.                     *)
(***************************************************************************)
NineSubstrings ==
    << <<";">>, <<"&", "&">>, <<"|", "|">>, <<BQ>>, <<"$", "(">>,
       <<">">>, <<"<">>, <<"|">>, <<"#">> >>

Accepted(res) == res.kind = "return" /\ res.valid

ValidatedCommand == vreq.fn = "validate_command" /\ vreq.step = "done"
ValidatedDirectory == vreq.fn = "validate_directory" /\ vreq.step = "done"

BaseAllowed(command, cfg) ==
    /\ Has(cfg, "allowedCommands")
    /\ BaseCommand(command) # <<>>
    /\ BaseCommand(command) \in cfg.allowedCommands

\* C3: under strict validation no command that contains one of the nine
\* substrings is accepted, whatever its base command; when the base command
\* is allowed, validate_command returns the rejection that names the first of
\* the nine, in their order, that occurs in the command.
C3_InjectionRejected ==
    (ValidatedCommand /\ Strict(config))
        => \A k \in 1..Len(NineSubstrings) :
              Contains(vreq.command, NineSubstrings[k])
                 => /\ ~Accepted(vreq.res)
                    /\ (BaseAllowed(vreq.command, config)
                           /\ \A j \in 1..(k - 1) :
                                 ~Contains(vreq.command, NineSubstrings[j]))
                          => vreq.res
                                = Return(FALSE, InjectionMsg(NineSubstrings[k],
                                                             NineSubstrings))

\* C3 witness: the allowed base command with the argument "||", which holds the
\* third and the eighth substring, is rejected.
C3_Witness ==
    /\ ValidatedCommand /\ Strict(config)
    /\ vreq.command = <<"l", " ", "|", "|">>
    /\ BaseAllowed(vreq.command, config)
    /\ ~Accepted(vreq.res)

\* what /bin/bash -l -c does with the string: a control operator followed by
\* a further word starts a second command; ` and $( substitute a command;
\* > and < redirect
ShellSeparators == {";", "&", "|", NL}
RunsSecondCommandOrRedirects(command) ==
    \/ \E k \in 1..Len(command) :
          /\ command[k] \in ShellSeparators
          /\ \E j \in (k + 1)..Len(command) :
                command[j] \notin ShellSeparators \cup Whitespace
          /\ \A j \in 1..(k - 1) : command[j] # "#"
    \/ \E k \in 1..Len(command) : command[k] \in {">", "<", BQ}
    \/ Contains(command, <<"$", "(">>)

\* C4: under strict validation no command that makes the shell run a second
\* command or redirect I/O is accepted.
C4_NoSecondCommandAccepted ==
    (ValidatedCommand /\ Strict(config)
        /\ RunsSecondCommandOrRedirects(vreq.command))
        => ~Accepted(vreq.res)

\* C5: validate_directory accepts a directory exactly when its canonical
\* path has the canonical path of an entry of allowedDirectories as a
\* prefix of whole components.
C5_DirectoryAllowedIff ==
    ValidatedDirectory
        => (Accepted(vreq.res)
              <=> /\ Has(config, "allowedDirectories")
                  /\ \E k \in 1..Len(config.allowedDirectories) :
                        LET a == Resolve(config.allowedDirectories[k], fs)
                            d == Resolve(vreq.directory, fs)
                        IN /\ Len(a) <= Len(d)
                           /\ \A j \in 1..Len(a) : a[j] = d[j])

\* C5 witness: /a/s, below the allowed /a by its name, is a symbolic link
\* to /ab and is rejected.
C5_Witness ==
    /\ ValidatedDirectory
    /\ Has(config, "allowedDirectories")
    /\ config.allowedDirectories = <<Dir(TRUE, <<A>>)>>
    /\ vreq.directory = Dir(TRUE, <<A, S>>)
    /\ [at |-> <<A, S>>, to |-> <<AB>>] \in fs
    /\ ~Accepted(vreq.res)

(***************************************************************************)
(* Claims about the policy reload.                                         *)
(***************************************************************************)

\* C11: the command check, the directory check and the read of the output
\* size limit of one call all see the same policy, also when the policy file
\* is rewritten and reloaded while the call is in progress.
C11_OneSnapshotPerCall ==
    \A i \in Inv :
        \A j, k \in DOMAIN call[i].snapshots :
            call[i].snapshots[j] = call[i].snapshots[k]

\* C12: a check_config_updates during which an access to the policy file
\* failed (the file missing, unreadable or not valid) has returned False and
\* has left the in-memory policy and the stored mtime as they were when it
\* started; and between two checks the in-memory policy is the content of
\* the last load that check_config_updates reported.
C12_FailedReloadChangesNothing ==
    monitor.pc = "sleep"
        => /\ monitor.failed
                => /\ ~monitor.ret
                   /\ config = monitor.config0
                   /\ config_last_modified = monitor.clm0
           /\ config = monitor.loaded

\* C13: the stored mtime belongs to the content that was loaded: between two
\* checks, when the file is valid and its mtime is the stored one (so that
\* the next check_config_updates does not read it again), the in-memory
\* policy is the content of the file.
C13_StoredMtimeMatchesContent ==
    (monitor.pc = "sleep" /\ cfgFile.state = "valid"
        /\ cfgFile.mtime = config_last_modified)
        => config = cfgFile.content

\* C17: a temporary file that a call left behind when it ended is
\* eventually deleted by a task that runs in the background.
C17_LeftoverEventuallySwept ==
    \A i \in Inv :
        (call[i].pc \in {"done", "raised", "cancelled"}
            /\ (call[i].output_file.exists \/ call[i].error_file.exists))
          ~> (~call[i].output_file.exists /\ ~call[i].error_file.exists)

(***************************************************************************)
(* Claims about the result of a completed child, checked under SpecOut.    *)
(***************************************************************************)
Completed(i) == call[i].pc = "done" /\ call[i].path = "completed"

\* the maxOutputSize in force when the call completed
LimitOf(i) == MaxSize(call[i].snapshots[Len(call[i].snapshots)])

\* the units of s that the child wrote
ChildUnits(s) == Cardinality({k \in 1..Len(s) : s[k] \in {"o", "e"}})

\* C14: the output of a completed child is its stdout followed, when stderr
\* is not empty, by the STDERR: section; longer than maxOutputSize, it is its
\* first maxOutputSize units followed by the truncation marker, and
\* otherwise it is unchanged, for every maxOutputSize, 0 and the negative
\* numbers included.
C14_OutputMergedAndTruncated ==
    \A i \in Inv :
        Completed(i)
            => LET c == call[i]
                   merged == IF c.stderr_str # <<>>
                             THEN c.stdout_str
                                    \o <<NL, "S", "T", "D", "E", "R", "R", ":", NL>>
                                    \o c.stderr_str
                             ELSE c.stdout_str
                   n == LimitOf(i)
               IN c.result.output
                     = IF Len(merged) > n
                       THEN SubSeq(merged, 1, n) \o TruncationMarker
                       ELSE merged

\* C15: a completed child succeeded exactly when its exit code is 0; when it
\* is not 0 the error is the captured stderr if there is any, and is never
\* empty.
C15_FailureCarriesError ==
    \A i \in Inv :
        Completed(i)
            => LET c == call[i] IN
               /\ c.result.success <=> (c.result.exitCode = 0)
               /\ c.result.exitCode = c.rc
               /\ c.result.exitCode # 0
                     => /\ c.result.error # <<>>
                        /\ c.stderr_str # <<>>
                              => c.result.error = c.stderr_str

\* C19: under a maxOutputSize that is not negative, neither the output nor
\* the error of a result holds more than maxOutputSize units written by the
\* child.
C19_ChildTextBounded ==
    \A i \in Inv :
        (Completed(i) /\ LimitOf(i) >= 0)
            => /\ ChildUnits(call[i].result.output) <= LimitOf(i)
               /\ ChildUnits(call[i].result.error) <= LimitOf(i)

(***************************************************************************)
(* Claims about the validators and the cleanup on their own.               *)
(***************************************************************************)

\* C16: a command that is empty once its whitespace is trimmed is rejected
\* as a command that is not allowed: validate_command returns, and returns
\* a rejection.
C16_BlankCommandRejected ==
    (ValidatedCommand /\ BaseCommand(vreq.command) = <<>>)
        => vreq.res.kind = "return" /\ ~vreq.res.valid

CleanedOnce ==
    vreq.fn = "self_cleanup_tempfiles" /\ vreq.step \in {"once", "twice"}

\* what a call must leave of file k, given the file before the call
AfterCleanup(f, k) ==
    IF f.exists /\ k \notin vreq.unnamed /\ k \notin vreq.denied
    THEN [exists |-> FALSE, data |-> <<>>]
    ELSE f

\* C18: self_cleanup_tempfiles never raises; it removes each file that
\* exists (and that the operating system lets it remove) and changes nothing
\* else, also when one or both files are absent; it calls os.unlink for the
\* second file whenever that file exists, whether or not the removal of the
\* first failed; and a second call leaves the files as the first call left
\* them.
C18_CleanupIdempotent ==
    /\ CleanedOnce
          => /\ ~vreq.once.raised
             /\ vreq.once.output_file = AfterCleanup(vreq.output_file, 1)
             /\ vreq.once.error_file = AfterCleanup(vreq.error_file, 2)
             /\ 2 \in vreq.once.tried
                    <=> (vreq.error_file.exists /\ 2 \notin vreq.unnamed)
    /\ (CleanedOnce /\ vreq.step = "twice")
          => /\ ~vreq.twice.raised
             /\ vreq.twice.output_file = vreq.once.output_file
             /\ vreq.twice.error_file = vreq.once.error_file

\* C18 witness: the removal of the first file failed, the second file was
\* removed all the same, and the function was called a second time.
C18_Witness ==
    /\ CleanedOnce /\ vreq.step = "twice"
    /\ vreq.output_file.exists /\ vreq.error_file.exists
    /\ vreq.unnamed = {} /\ vreq.denied = {1}
    /\ vreq.once.output_file.exists
    /\ ~vreq.once.error_file.exists
    /\ 1 \in vreq.twice.tried

(***************************************************************************)
(* Claim about the directory of the child, checked under SpecFs.           *)
(***************************************************************************)

\* C20: the directory in which the child runs has the canonical path of an
\* allowed directory of the policy that validated the request as a prefix
\* of whole components, whatever happens to the filesystem between
\* validate_directory and the child's cd.
C20_ChildRunsInAllowedDirectory ==
    \A i \in Inv :
        call[i].cd_done
            => LET allowed == call[i].snapshots[2].allowedDirectories
                   d == call[i].rundir
               IN \E k \in 1..Len(allowed) :
                     LET a == Resolve(allowed[k], fs)
                     IN /\ Len(a) <= Len(d)
                        /\ \A j \in 1..Len(a) : a[j] = d[j]

====
